---- MODULE Spec2Model ----
(***************************************************************************)
(* DeviceCamera (aliceVision/depthMap/cuda/DeviceCamera.cpp): the          *)
(* GPU-resident frame of one camera.  The model follows fill(), the        *)
(* private fillDeviceFrameFromHostFrame() and the destructor statement by  *)
(* statement: pc names the source line the host thread executes next.      *)
(*                                                                         *)
(* Device memory, texture objects and pinned host memory are pools of      *)
(* addresses/handles; an allocation may fail at any time and always fails  *)
(* when its pool is exhausted.  The contents of the frame buffer are the   *)
(* contents as seen in stream order: a copy or a kernel takes effect on    *)
(* them at the moment it is enqueued.  A call on the null stream blocks    *)
(* until its operation is done; a call on another stream leaves the        *)
(* operation in queue, from which the device executes in order, at any     *)
(* later time.  The parameter slot array is the memory of the device: on   *)
(* a non-null stream it changes when the device executes the transfer.     *)
(***************************************************************************)
EXTENDS Integers, FiniteSets, Sequences, TLC

\* ------------------------------------------------------------------ bounds
MaxWidth == 3
MaxDownscale == 2
MaxPending == 3                    \* operations in queue on the stream

Widths == {0} \cup (2..MaxWidth)   \* originalWidth arguments (0 is invalid)
Heights == {2}                     \* originalHeight arguments
Downscales == 0..MaxDownscale      \* downscale argument (0 is invalid input)
Addrs == {1, 2}                    \* device addresses of pitched allocations
TexIds == {1, 2}                   \* cudaTextureObject_t values of the runtime
PinnedAddrs == {1}                 \* pinned host addresses
Params == {1, 2}                   \* DeviceCameraParams values
Pixels == {1, 2}                   \* host frame contents
GlobalCamIds == {5}
Slots == {0, 1}                    \* indices of constantCameraParametersArray_d
Streams == {0, 1}                  \* cudaStream_t: the null stream and another

VARIABLES
    pc,                    \* next source line of the host thread
    deviceCamId,           \* _deviceCamId
    cam,                   \* _globalCamId, _originalWidth, ... , _memBytes
    frame_dmp,             \* _frame_dmp: NoFrame or the owned device buffer
    textureObject,         \* _textureObject: a handle value, live or not
    cameraParameters_h,    \* _cameraParameters_h: 0 or a pinned address
    devLive,               \* device addresses currently allocated
    texBound,              \* per handle: -1 not a texture, 0 texture whose
                           \* buffer was freed, a > 0 texture bound to a
    pinnedLive,            \* pinned addresses currently allocated
    pinnedData,            \* contents of the pinned blocks
    slotArray,             \* constantCameraParametersArray_d
    call,                  \* arguments and locals of the running call
    pre,                   \* what the call found: the buffer and texture held
    prevStatus,            \* how the previous fill call ended
    stream,                \* the stream argument of the running call
    queue,                 \* operations enqueued and not yet executed
    lastXfer               \* parameters of the last transfer fill has issued

vars == <<pc, deviceCamId, cam, frame_dmp, textureObject, cameraParameters_h,
          devLive, texBound, pinnedLive, pinnedData, slotArray, call, pre,
          prevStatus, stream, queue, lastXfer>>

NoFrame == [addr |-> 0, w |-> 0, h |-> 0, pix |-> 0, conv |-> 0]

NoCall == [pix |-> 0, params |-> 0, onStreams |-> {},
           newFrame |-> 0, tmpBuf |-> 0, tmpTex |-> 0, tmpPix |-> 0,
           result |-> "none", nDevAlloc |-> 0, nFrameAlloc |-> 0,
           nTexOps |-> 0, nLab |-> 0, issued |-> <<>>,
           camChanged |-> FALSE, stagingChanged |-> FALSE,
           slotChanged |-> FALSE, valid |-> TRUE]

NoPre == [frame |-> NoFrame, tex |-> 0, texBound |-> -1, memBytes |-> 0]

\* ------------------------------------------------------ device runtime
\* CudaDeviceMemoryPitched::getBytesPadded(): pitch * height, the pitch
\* being the row size rounded up to the allocation alignment.
BytesPadded(w, h) == (((w * 4 + 7) \div 8) * 8) * h

FreeAddrs == Addrs \ devLive

\* The address cudaMallocPitch returns.  No freed device address is kept
\* anywhere in the program, so the free addresses are interchangeable and the
\* lowest one stands for all of them.
NewAddr == CHOOSE a \in FreeAddrs : \A b \in FreeAddrs : a <= b
FreeTex == {t \in TexIds : texBound[t] = -1}

\* cudaFree of the allocation at a: textures bound to it now dangle.
FreeDevice(tb, a) == [t \in TexIds |-> IF tb[t] = a /\ a # 0 THEN 0 ELSE tb[t]]

\* cudaDestroyTextureObject(h): destroys h when it is a live texture, fails
\* (the code ignores the status) otherwise.
DestroyTexture(tb, h) == [t \in TexIds |-> IF t = h THEN -1 ELSE tb[t]]

\* cudaCreateTextureObject over the buffer at a, returning handle t.
CreateTexture(tb, t, a) == [tb EXCEPT ![t] = a]

\* The handle values a failed cudaCreateTextureObject can leave in *textureObject.
FailedHandle(old) == {old, 0}

IsLiveTexture(h) == h \in TexIds /\ texBound[h] # -1

\* ------------------------------------------------------------- the stream
\* An operation in queue: op is "params" (cudaMemcpyToSymbolAsync reading the
\* pinned block res, which held val when it was enqueued), "copy" or
\* "rgb2lab" (on the permanent buffer res), "tmpcopy" or "downscale" (on the
\* temporary buffer res).  stale: the host has released res since.
Op(op, s, res, val) ==
    [op |-> op, stream |-> s, res |-> res, val |-> val, stale |-> FALSE]

\* A call on the null stream returns when its operation is done; on another
\* stream it returns once the operation is in queue.
Enqueued(q, s, e) == IF s = 0 THEN q ELSE Append(q, e)

\* The host goes on only when the queue has room: the device has executed
\* enough of it.
CanEnqueue == stream = 0 \/ Len(queue) < MaxPending

\* The queue once the host has released the allocation at address a, pinned
\* or on the device: the operations in queue that use it are stale.
Released(q, pinned, a) ==
    [i \in DOMAIN q |->
        IF (q[i].op = "params") = pinned /\ q[i].res = a /\ a # 0
        THEN [q[i] EXCEPT !.stale = TRUE] ELSE q[i]]

\* ------------------------------------------------------------------ Init
\* DeviceCamera::DeviceCamera: the fields of the initialiser list; _frame_dmp
\* and _cameraParameters_h start null, _textureObject is not initialised: its
\* value is no handle of the runtime (0) or one of them (1: no texture exists
\* yet, so the handles are interchangeable).
Init ==
    /\ pc = "idle"
    /\ deviceCamId = 1
    /\ cam = [globalCamId |-> -1, originalWidth |-> -1, originalHeight |-> -1,
              width |-> -1, height |-> -1, downscale |-> -1, memBytes |-> 0]
    /\ frame_dmp = NoFrame
    /\ textureObject \in {0, 1}
    /\ cameraParameters_h = 0
    /\ devLive = {}
    /\ texBound = [t \in TexIds |-> -1]
    /\ pinnedLive = {}
    /\ pinnedData = [a \in PinnedAddrs |-> 0]
    /\ slotArray = [s \in Slots |-> 0]
    /\ call = NoCall
    /\ pre = NoPre
    /\ prevStatus = "none"
    /\ stream = 0
    /\ queue = <<>>
    /\ lastXfer = 0

Snapshot == [frame |-> frame_dmp, tex |-> textureObject,
             texBound |-> IF textureObject \in TexIds
                          THEN texBound[textureObject] ELSE -1,
             memBytes |-> cam.memBytes]

Raised(c) == [c EXCEPT !.result = "err"]

\* ------------------------------------------------------------------ fill
Downscaled_RoundUp(original, downscale) ==
    (original + downscale - 1) \div downscale

\* _width = _originalWidth / downscale (C++ integer division, operands >= 0).
Downscaled(original, downscale) == original \div downscale

\* The precondition of fill: downscale >= 1, positive original dimensions.
ValidInput(downscale, originalWidth, originalHeight) ==
    downscale >= 1 /\ originalWidth > 0 /\ originalHeight > 0

\* The arguments frame_hmh and cameraParameters_h are drawn where fill reads
\* them (lines 93, 141, 151): they are const references nothing else changes.
\* Lines 77-83.  downscale = 0 divides by zero: the build either traps (with
\* the stores before the division done or not) or yields quotient 0.
FillBegin(globalCamId, downscale, originalWidth, originalHeight, onStream) ==
    /\ pc = "idle"
    /\ pre' = Snapshot
    /\ stream' = onStream
    /\ \/ /\ downscale # 0
          /\ cam' = [cam EXCEPT !.globalCamId = globalCamId,
                                !.originalWidth = originalWidth,
                                !.originalHeight = originalHeight,
                                !.width = Downscaled(originalWidth, downscale),
                                !.height = Downscaled(originalHeight, downscale),
                                !.downscale = downscale]
          /\ pc' = "L87"
       \/ /\ downscale = 0
          /\ cam' = [cam EXCEPT !.globalCamId = globalCamId,
                                !.originalWidth = originalWidth,
                                !.originalHeight = originalHeight,
                                !.width = 0, !.height = 0, !.downscale = 0]
          /\ pc' = "L87"
       \/ /\ downscale = 0
          /\ cam' \in {cam, [cam EXCEPT !.globalCamId = globalCamId,
                                        !.originalWidth = originalWidth,
                                        !.originalHeight = originalHeight]}
          /\ pc' = "aborted"
    /\ call' = [NoCall EXCEPT !.valid = ValidInput(downscale, originalWidth,
                                                   originalHeight),
                              !.camChanged = (cam' # cam)]
    /\ UNCHANGED <<deviceCamId, frame_dmp, textureObject, cameraParameters_h,
                   devLive, texBound, pinnedLive, pinnedData, slotArray,
                   prevStatus, queue, lastXfer>>

\* Lines 85-93: cudaFreeHost, cudaMallocHost, *_cameraParameters_h = params.
AllocParams(cameraParameters) ==
    /\ pc = "L87"
    /\ LET freed == pinnedLive \ {cameraParameters_h}
           wiped == [a \in PinnedAddrs |->
                        IF a = cameraParameters_h THEN 0 ELSE pinnedData[a]]
       IN \/ \E a \in PinnedAddrs \ freed :
                /\ cameraParameters_h' = a
                /\ pinnedLive' = freed \cup {a}
                /\ pinnedData' = [wiped EXCEPT ![a] = cameraParameters]
                /\ pc' = "L97"
                /\ call' = [call EXCEPT !.params = cameraParameters,
                                        !.stagingChanged =
                               \/ a # cameraParameters_h
                               \/ a \notin pinnedLive
                               \/ pinnedData[a] # cameraParameters]
          \/ /\ cameraParameters_h' \in {cameraParameters_h, 0}
             /\ pinnedLive' = freed
             /\ pinnedData' = wiped
             /\ pc' = "ret"
             /\ call' = [Raised(call) EXCEPT !.stagingChanged =
                            \/ cameraParameters_h' # cameraParameters_h
                            \/ cameraParameters_h \in pinnedLive]
    /\ queue' = Released(queue, TRUE, cameraParameters_h)
    /\ UNCHANGED <<deviceCamId, cam, frame_dmp, textureObject, devLive,
                   texBound, slotArray, pre,
                   prevStatus, stream, lastXfer>>

NeedRealloc_Always == TRUE

NeedRealloc_OnlyWhenNull == frame_dmp = NoFrame

\* Line 117: the test that decides between reuse and re-allocation.
NeedRealloc ==
    \/ frame_dmp = NoFrame
    \/ frame_dmp.w # cam.width
    \/ frame_dmp.h # cam.height

FDFEntry_AlwaysDownscale == "L146"

\* Line 134: the branch taken by fillDeviceFrameFromHostFrame.
FDFEntry == IF cam.downscale <= 1 THEN "L137" ELSE "L146"

\* Lines 95-112: cudaMemcpyToSymbol[Async] of the staging block into the slot
\* _deviceCamId (the state is the one seen in stream order, so both variants
\* have the same effect here), then the test of line 117.
CopyParams ==
    /\ pc = "L97"
    /\ \/ /\ CanEnqueue
          /\ slotArray' = IF stream = 0
                          THEN [slotArray EXCEPT ![deviceCamId] =
                                   pinnedData[cameraParameters_h]]
                          ELSE slotArray
          /\ queue' = Enqueued(queue, stream,
                               Op("params", stream, cameraParameters_h,
                                  pinnedData[cameraParameters_h]))
          /\ lastXfer' = pinnedData[cameraParameters_h]
          /\ call' = [call EXCEPT !.issued = Append(@, "params"),
                                  !.slotChanged = (slotArray' # slotArray)]
          /\ pc' = IF NeedRealloc THEN "L120" ELSE FDFEntry
       \/ /\ slotArray' = slotArray
          /\ call' = Raised(call)
          /\ pc' = "ret"
          /\ UNCHANGED <<queue, lastXfer>>
    /\ UNCHANGED <<deviceCamId, cam, frame_dmp, textureObject,
                   cameraParameters_h, devLive, texBound, pinnedLive,
                   pinnedData, pre,
                   prevStatus, stream>>

\* Line 120, the argument: new CudaDeviceMemoryPitched(deviceFrameSize).
AllocFrame ==
    /\ pc = "L120"
    /\ \/ /\ FreeAddrs # {}
          /\ devLive' = devLive \cup {NewAddr}
          /\ call' = [call EXCEPT !.newFrame = NewAddr, !.nDevAlloc = @ + 1,
                                  !.nFrameAlloc = @ + 1]
          /\ pc' = "L120r"
       \/ /\ devLive' = devLive
          /\ call' = Raised(call)
          /\ pc' = "ret"
    /\ UNCHANGED <<deviceCamId, cam, frame_dmp, textureObject,
                   cameraParameters_h, texBound, pinnedLive, pinnedData,
                   slotArray, pre,
                   prevStatus, stream, queue, lastXfer>>

ResetFrame_KeepMemBytes ==
    /\ pc = "L120r"
    /\ frame_dmp' = [addr |-> call.newFrame, w |-> cam.width, h |-> cam.height,
                     pix |-> 0, conv |-> 0]
    /\ devLive' = devLive \ {frame_dmp.addr}
    /\ texBound' = FreeDevice(texBound, frame_dmp.addr)
    /\ call' = [call EXCEPT !.newFrame = 0]
    /\ pc' = "L124"
    /\ queue' = Released(queue, FALSE, frame_dmp.addr)
    /\ UNCHANGED <<deviceCamId, cam, textureObject, cameraParameters_h,
                   pinnedLive, pinnedData, slotArray, pre, prevStatus, stream,
                   lastXfer>>

\* Lines 120-121: unique_ptr::reset takes the new buffer and deletes the old
\* one; _memBytes = getBytesPadded().
ResetFrame ==
    /\ pc = "L120r"
    /\ frame_dmp' = [addr |-> call.newFrame, w |-> cam.width, h |-> cam.height,
                     pix |-> 0, conv |-> 0]
    /\ devLive' = devLive \ {frame_dmp.addr}
    /\ texBound' = FreeDevice(texBound, frame_dmp.addr)
    /\ cam' = [cam EXCEPT !.memBytes = BytesPadded(cam.width, cam.height)]
    /\ call' = [call EXCEPT !.newFrame = 0]
    /\ pc' = "L124"
    /\ queue' = Released(queue, FALSE, frame_dmp.addr)
    /\ UNCHANGED <<deviceCamId, textureObject, cameraParameters_h, pinnedLive,
                   pinnedData, slotArray, pre,
                   prevStatus, stream, lastXfer>>

\* Line 124: cudaDestroyTextureObject(_textureObject).
DestroyOldTexture ==
    /\ pc = "L124"
    /\ texBound' = DestroyTexture(texBound, textureObject)
    /\ call' = [call EXCEPT !.nTexOps = @ + 1]
    /\ pc' = "L125"
    /\ UNCHANGED <<deviceCamId, cam, frame_dmp, textureObject,
                   cameraParameters_h, devLive, pinnedLive, pinnedData,
                   slotArray, pre,
                   prevStatus, stream, queue, lastXfer>>

\* Line 125: buildFrameCudaTexture(_frame_dmp.get(), &_textureObject).
BuildTexture ==
    /\ pc = "L125"
    /\ \/ \E t \in FreeTex :
             /\ texBound' = CreateTexture(texBound, t, frame_dmp.addr)
             /\ textureObject' = t
             /\ call' = [call EXCEPT !.nTexOps = @ + 1]
             /\ pc' = FDFEntry
       \/ /\ texBound' = texBound
          /\ textureObject' \in FailedHandle(textureObject)
          /\ call' = Raised(call)
          /\ pc' = "ret"
    /\ UNCHANGED <<deviceCamId, cam, frame_dmp, cameraParameters_h, devLive,
                   pinnedLive, pinnedData, slotArray, pre,
                   prevStatus, stream, queue, lastXfer>>

\* ------------------------------------------- fillDeviceFrameFromHostFrame
\* CudaDeviceMemoryPitched::copyFrom(frame_hmh, stream) into the buffer f.
CopiedFrom(f, pix) == [f EXCEPT !.pix = pix, !.conv = 0]

\* cuda_rgb2lab on the buffer f, in place.
Lab(f) == [f EXCEPT !.conv = IF @ < 2 THEN @ + 1 ELSE @]

\* Lines 134-141, downscale <= 1: the two assertions, then the direct copy.
\* A build with assertions aborts when they fail; one without goes on.
CopyDirect(frame_hmh) ==
    /\ pc = "L137"
    /\ \/ /\ (cam.originalHeight # cam.height \/ cam.originalWidth # cam.width)
          /\ pc' = "aborted"
          /\ UNCHANGED <<frame_dmp, call, queue>>
       \/ /\ CanEnqueue
          /\ frame_dmp' = CopiedFrom(frame_dmp, frame_hmh)
          /\ queue' = Enqueued(queue, stream,
                               Op("copy", stream, frame_dmp.addr, frame_hmh))
          /\ call' = [call EXCEPT !.pix = frame_hmh,
                                  !.issued = Append(@, "copy"),
                                  !.onStreams = @ \cup {stream}]
          /\ pc' = "L163"
       \/ /\ frame_dmp' = frame_dmp
          /\ call' = Raised(call)
          /\ pc' = "ret"
          /\ UNCHANGED queue
    /\ UNCHANGED <<deviceCamId, cam, textureObject, cameraParameters_h, devLive,
                   texBound, pinnedLive, pinnedData, slotArray, pre,
                   prevStatus, stream, lastXfer>>

\* Line 146: new CudaDeviceMemoryPitched(frame_hmh.getSize()).
TmpAlloc ==
    /\ pc = "L146"
    /\ \/ /\ FreeAddrs # {}
          /\ devLive' = devLive \cup {NewAddr}
          /\ call' = [call EXCEPT !.tmpBuf = NewAddr, !.nDevAlloc = @ + 1]
          /\ pc' = "L148"
       \/ /\ devLive' = devLive
          /\ call' = Raised(call)
          /\ pc' = "ret"
    /\ UNCHANGED <<deviceCamId, cam, frame_dmp, textureObject,
                   cameraParameters_h, texBound, pinnedLive, pinnedData,
                   slotArray, pre,
                   prevStatus, stream, queue, lastXfer>>

\* Line 148: buildFrameCudaTexture(deviceFrameToDownscale, &textureObjectToDownscale).
TmpBuildTexture ==
    /\ pc = "L148"
    /\ \/ \E t \in FreeTex :
             /\ texBound' = CreateTexture(texBound, t, call.tmpBuf)
             /\ call' = [call EXCEPT !.tmpTex = t]
             /\ pc' = "L151"
       \/ /\ texBound' = texBound
          /\ call' = Raised(call)
          /\ pc' = "ret"
    /\ UNCHANGED <<deviceCamId, cam, frame_dmp, textureObject,
                   cameraParameters_h, devLive, pinnedLive, pinnedData,
                   slotArray, pre,
                   prevStatus, stream, queue, lastXfer>>

\* Line 151: deviceFrameToDownscale->copyFrom(frame_hmh, stream).
TmpCopy(frame_hmh) ==
    /\ pc = "L151"
    /\ \/ /\ CanEnqueue
          /\ queue' = Enqueued(queue, stream,
                               Op("tmpcopy", stream, call.tmpBuf, frame_hmh))
          /\ call' = [call EXCEPT !.pix = frame_hmh, !.tmpPix = frame_hmh,
                                  !.issued = Append(@, "copy"),
                                  !.onStreams = @ \cup {stream}]
          /\ pc' = "L155"
       \/ /\ call' = Raised(call)
          /\ pc' = "ret"
          /\ UNCHANGED queue
    /\ UNCHANGED <<deviceCamId, cam, frame_dmp, textureObject,
                   cameraParameters_h, devLive, texBound, pinnedLive,
                   pinnedData, slotArray, pre,
                   prevStatus, stream, lastXfer>>

Downscale_OnNullStream ==
    /\ pc = "L155"
    /\ \/ /\ frame_dmp' = CopiedFrom(frame_dmp, call.tmpPix)
          /\ queue' = Enqueued(queue, 0, Op("downscale", 0, call.tmpBuf, 0))
          /\ call' = [call EXCEPT !.issued = Append(@, "downscale"),
                                  !.onStreams = @ \cup {0}]
          /\ pc' = "L158"
       \/ /\ frame_dmp' = frame_dmp
          /\ call' = Raised(call)
          /\ pc' = "ret"
          /\ UNCHANGED queue
    /\ UNCHANGED <<deviceCamId, cam, textureObject, cameraParameters_h, devLive,
                   texBound, pinnedLive, pinnedData, slotArray, pre,
                   prevStatus, stream, lastXfer>>

\* Line 155: cuda_downscaleWithGaussianBlur reads the temporary texture and
\* writes *_frame_dmp, or raises the error of its kernel launch.
Downscale ==
    /\ pc = "L155"
    /\ \/ /\ CanEnqueue
          /\ frame_dmp' = CopiedFrom(frame_dmp, call.tmpPix)
          /\ queue' = Enqueued(queue, stream,
                               Op("downscale", stream, call.tmpBuf, 0))
          /\ call' = [call EXCEPT !.issued = Append(@, "downscale"),
                                  !.onStreams = @ \cup {stream}]
          /\ pc' = "L158"
       \/ /\ frame_dmp' = frame_dmp
          /\ call' = Raised(call)
          /\ pc' = "ret"
          /\ UNCHANGED queue
    /\ UNCHANGED <<deviceCamId, cam, textureObject, cameraParameters_h, devLive,
                   texBound, pinnedLive, pinnedData, slotArray, pre,
                   prevStatus, stream, lastXfer>>

\* Line 158: delete deviceFrameToDownscale.
TmpDelete ==
    /\ pc = "L158"
    /\ devLive' = devLive \ {call.tmpBuf}
    /\ texBound' = FreeDevice(texBound, call.tmpBuf)
    /\ call' = [call EXCEPT !.tmpBuf = 0, !.tmpPix = 0]
    /\ pc' = "L159"
    /\ queue' = Released(queue, FALSE, call.tmpBuf)
    /\ UNCHANGED <<deviceCamId, cam, frame_dmp, textureObject,
                   cameraParameters_h, pinnedLive, pinnedData, slotArray, pre,
                   prevStatus, stream, lastXfer>>

\* Line 159: cudaDestroyTextureObject(textureObjectToDownscale).
TmpDestroyTexture ==
    /\ pc = "L159"
    /\ texBound' = DestroyTexture(texBound, call.tmpTex)
    /\ call' = [call EXCEPT !.tmpTex = 0]
    /\ pc' = "L163"
    /\ UNCHANGED <<deviceCamId, cam, frame_dmp, textureObject,
                   cameraParameters_h, devLive, pinnedLive, pinnedData,
                   slotArray, pre,
                   prevStatus, stream, queue, lastXfer>>

Rgb2Lab_Twice ==
    /\ pc = "L163"
    /\ frame_dmp' = Lab(Lab(frame_dmp))
    /\ queue' = Enqueued(Enqueued(queue, stream,
                                  Op("rgb2lab", stream, frame_dmp.addr, 0)),
                         stream, Op("rgb2lab", stream, frame_dmp.addr, 0))
    /\ call' = [call EXCEPT !.nLab = @ + 2,
                            !.issued = Append(Append(@, "rgb2lab"), "rgb2lab"),
                            !.onStreams = @ \cup {stream},
                            !.result = "ok"]
    /\ pc' = "ret"
    /\ UNCHANGED <<deviceCamId, cam, textureObject, cameraParameters_h, devLive,
                   texBound, pinnedLive, pinnedData, slotArray, pre,
                   prevStatus, stream, lastXfer>>

\* Line 163: cuda_rgb2lab(*_frame_dmp, ...), then fill returns normally.
Rgb2Lab ==
    /\ pc = "L163"
    /\ CanEnqueue
    /\ frame_dmp' = Lab(frame_dmp)
    /\ queue' = Enqueued(queue, stream,
                         Op("rgb2lab", stream, frame_dmp.addr, 0))
    /\ call' = [call EXCEPT !.nLab = @ + 1, !.issued = Append(@, "rgb2lab"),
                            !.onStreams = @ \cup {stream},
                            !.result = "ok"]
    /\ pc' = "ret"
    /\ UNCHANGED <<deviceCamId, cam, textureObject, cameraParameters_h, devLive,
                   texBound, pinnedLive, pinnedData, slotArray, pre,
                   prevStatus, stream, lastXfer>>

\* The caller takes the result; the locals of the call are gone.
Return ==
    /\ pc = "ret"
    /\ pc' = "idle"
    /\ call' = NoCall
    /\ pre' = NoPre
    /\ prevStatus' = call.result
    /\ UNCHANGED <<deviceCamId, cam, frame_dmp, textureObject,
                   cameraParameters_h, devLive, texBound, pinnedLive,
                   pinnedData, slotArray, stream, queue, lastXfer>>

\* ------------------------------------------------------------ ~DeviceCamera
\* Line 64: _frame_dmp.reset().
DtorResetFrame ==
    /\ pc = "idle"
    /\ frame_dmp' = NoFrame
    /\ devLive' = devLive \ {frame_dmp.addr}
    /\ texBound' = FreeDevice(texBound, frame_dmp.addr)
    /\ pre' = Snapshot
    /\ pc' = "D65"
    /\ queue' = Released(queue, FALSE, frame_dmp.addr)
    /\ UNCHANGED <<deviceCamId, cam, textureObject, cameraParameters_h,
                   pinnedLive, pinnedData, slotArray, call,
                   prevStatus, stream, lastXfer>>

\* Line 65: cudaFreeHost(_cameraParameters_h).
DtorFreeHost ==
    /\ pc = "D65"
    /\ pinnedLive' = pinnedLive \ {cameraParameters_h}
    /\ pc' = "D66"
    /\ queue' = Released(queue, TRUE, cameraParameters_h)
    /\ UNCHANGED <<deviceCamId, cam, frame_dmp, textureObject,
                   cameraParameters_h, devLive, texBound, pinnedData,
                   slotArray, call, pre,
                   prevStatus, stream, lastXfer>>

\* Line 66: cudaDestroyTextureObject(_textureObject).
DtorDestroyTexture ==
    /\ pc = "D66"
    /\ texBound' = DestroyTexture(texBound, textureObject)
    /\ pc' = "destroyed"
    /\ UNCHANGED <<deviceCamId, cam, frame_dmp, textureObject,
                   cameraParameters_h, devLive, pinnedLive, pinnedData,
                   slotArray, call, pre,
                   prevStatus, stream, queue, lastXfer>>

\* A call of fill by the owner of the camera, with valid or invalid arguments,
\* on the null stream.
Fill ==
    \/ \E globalCamId \in GlobalCamIds, downscale \in Downscales \ {0},
          originalWidth \in Widths \ {0}, originalHeight \in Heights :
           FillBegin(globalCamId, downscale, originalWidth, originalHeight, 0)
    \/ \E globalCamId \in GlobalCamIds, downscale \in Downscales \ {0},
          originalWidth \in Widths, originalHeight \in Heights :
           /\ ~ValidInput(downscale, originalWidth, originalHeight)
           /\ FillBegin(globalCamId, downscale, originalWidth, originalHeight, 0)
    \/ \E globalCamId \in GlobalCamIds,
          originalWidth \in Widths, originalHeight \in Heights :
           FillBegin(globalCamId, 0, originalWidth, originalHeight, 0)

Next ==
    \/ Fill
    \/ \E cameraParameters \in Params : AllocParams(cameraParameters)
    \/ CopyParams
    \/ AllocFrame
    \/ ResetFrame
    \/ DestroyOldTexture
    \/ BuildTexture
    \/ \E frame_hmh \in Pixels : CopyDirect(frame_hmh)
    \/ TmpAlloc
    \/ TmpBuildTexture
    \/ \E frame_hmh \in Pixels : TmpCopy(frame_hmh)
    \/ Downscale
    \/ TmpDelete
    \/ TmpDestroyTexture
    \/ Rgb2Lab
    \/ Return
    \/ DtorResetFrame
    \/ DtorFreeHost
    \/ DtorDestroyTexture

Spec == Init /\ [][Next]_vars

\* ------------------------------------------------------- fill on a stream
\* What the device reads when it executes a transfer from a pinned block: the
\* block as it is; when the host has freed the block since, what the block
\* held, or whatever is at its address now.
TransferRead(e) ==
    IF e.stale THEN {e.val, pinnedData[e.res]} ELSE {pinnedData[e.res]}

\* The device executes the operation at the head of the queue.  A transfer
\* (lines 107-108) writes the entry _deviceCamId of the slot array; the effect
\* of the other operations on the frame is already in frame_dmp.
Execute ==
    /\ queue # <<>>
    /\ \/ /\ Head(queue).op = "params"
          /\ \E v \in TransferRead(Head(queue)) :
                slotArray' = [slotArray EXCEPT ![deviceCamId] = v]
       \/ /\ Head(queue).op # "params"
          /\ slotArray' = slotArray
    /\ queue' = Tail(queue)
    /\ UNCHANGED <<pc, deviceCamId, cam, frame_dmp, textureObject,
                   cameraParameters_h, devLive, texBound, pinnedLive,
                   pinnedData, call, pre, prevStatus, stream, lastXfer>>

\* Lines 100-109 run by another DeviceCamera, whose _deviceCamId is another
\* one: its transfer writes its own entry of the slot array.
OtherCameraTransfer ==
    /\ \E other \in Slots \ {deviceCamId}, cameraParameters \in Params :
          slotArray' = [slotArray EXCEPT ![other] = cameraParameters]
    /\ UNCHANGED <<pc, deviceCamId, cam, frame_dmp, textureObject,
                   cameraParameters_h, devLive, texBound, pinnedLive,
                   pinnedData, call, pre, prevStatus, stream, queue, lastXfer>>

\* A call of fill with valid arguments, on the null stream or on another,
\* with downscale 1 (the direct copy) or 2 (the downscale path).
FillOnStream ==
    \E globalCamId \in GlobalCamIds, downscale \in {1, 2},
       originalWidth \in {2}, originalHeight \in {2}, onStream \in Streams :
        FillBegin(globalCamId, downscale, originalWidth, originalHeight,
                  onStream)

\* The frame pipeline on a stream: one camera, one value of the parameters.
NextStream ==
    \/ FillOnStream
    \/ \E cameraParameters \in {1} : AllocParams(cameraParameters)
    \/ CopyParams
    \/ AllocFrame
    \/ ResetFrame
    \/ DestroyOldTexture
    \/ BuildTexture
    \/ \E frame_hmh \in {1} : CopyDirect(frame_hmh)
    \/ TmpAlloc
    \/ TmpBuildTexture
    \/ \E frame_hmh \in {1} : TmpCopy(frame_hmh)
    \/ Downscale
    \/ TmpDelete
    \/ TmpDestroyTexture
    \/ Rgb2Lab
    \/ Return
    \/ DtorResetFrame
    \/ DtorFreeHost
    \/ DtorDestroyTexture
    \/ Execute

SpecStream == Init /\ [][NextStream]_vars

\* A call of fill with valid arguments and downscale 1 by a caller that
\* keeps to one stream, the null stream or another, for all its calls.
FillDirect ==
    \E globalCamId \in GlobalCamIds, originalWidth \in {2},
       originalHeight \in {2}, onStream \in Streams :
        /\ (prevStatus = "none" \/ onStream = stream)
        /\ FillBegin(globalCamId, 1, originalWidth, originalHeight, onStream)

\* The parameter transfer among several cameras: the fills of this camera
\* interleaved with the transfers of the others and with the device.
NextSlots ==
    \/ FillDirect
    \/ \E cameraParameters \in Params : AllocParams(cameraParameters)
    \/ CopyParams
    \/ AllocFrame
    \/ ResetFrame
    \/ DestroyOldTexture
    \/ BuildTexture
    \/ \E frame_hmh \in {1} : CopyDirect(frame_hmh)
    \/ Rgb2Lab
    \/ Return
    \/ DtorResetFrame
    \/ DtorFreeHost
    \/ DtorDestroyTexture
    \/ Execute
    \/ OtherCameraTransfer

SpecSlots == Init /\ [][NextSlots]_vars

\* ================================================================ claims
InFill == pc \in {"L87", "L97", "L120", "L120r", "L124", "L125", "L137",
                  "L146", "L148", "L151", "L155", "L158", "L159", "L163",
                  "ret", "aborted"}
InDtor == pc \in {"D65", "D66", "destroyed"}
Returned == pc = "ret"
ReturnedOk == pc = "ret" /\ call.result = "ok"

\* The call found a frame buffer and a live texture bound to it.
HeldPair == /\ pre.frame # NoFrame
            /\ pre.texBound = pre.frame.addr
\* The call found a frame buffer of the size it asks for / of another size.
SameSize == /\ pre.frame # NoFrame
            /\ pre.frame.w = cam.width /\ pre.frame.h = cam.height
Resize == /\ pre.frame # NoFrame
          /\ (pre.frame.w # cam.width \/ pre.frame.h # cam.height)
\* The buffer the call found has been released / its texture is still alive.
OldBufferReleased == pre.frame.addr # 0 /\ frame_dmp.addr # pre.frame.addr
OldTextureAlive == HeldPair /\ call.nTexOps = 0 /\ IsLiveTexture(pre.tex)
\* _textureObject is a live texture bound to the buffer the camera owns.
TextureOnOwnedFrame ==
    /\ frame_dmp # NoFrame
    /\ IsLiveTexture(textureObject)
    /\ texBound[textureObject] = frame_dmp.addr

\* C1: in a fill whose downscaled size differs from the size of the held
\* buffer, the old texture never still exists once the old buffer has been
\* released, and the call, when it succeeds, has created a new buffer and a new
\* texture.
C1_OldTextureNeverOutlivesOldBuffer ==
    (InFill /\ call.valid /\ Resize) =>
        /\ ~(OldBufferReleased /\ OldTextureAlive)
        /\ (ReturnedOk => /\ call.nFrameAlloc = 1
                          /\ call.nTexOps = 2
                          /\ TextureOnOwnedFrame)

\* C2: the destructor of a camera holding a buffer and its texture never
\* has the buffer released while the texture bound to it is still alive.
C2_DtorTextureNotAfterBuffer ==
    (InDtor /\ HeldPair) =>
        ~(frame_dmp = NoFrame /\ IsLiveTexture(pre.tex))

C3_Witness ==
    /\ ReturnedOk /\ SameSize /\ prevStatus = "ok"
    /\ pre.frame.pix # 0 /\ pre.frame.pix # frame_dmp.pix

\* C3: the second of two consecutive successful fill calls with equal
\* downscaled sizes neither frees nor allocates the frame buffer and neither
\* destroys nor builds its texture: buffer address, _memBytes and texture
\* handle are as the call found them, and the buffer holds the new frame.
C3_SameSizeReusesBufferAndTexture ==
    (ReturnedOk /\ prevStatus = "ok" /\ SameSize) =>
        /\ call.nFrameAlloc = 0
        /\ call.nTexOps = 0
        /\ frame_dmp.addr = pre.frame.addr
        /\ frame_dmp.addr \in devLive
        /\ cam.memBytes = pre.memBytes
        /\ textureObject = pre.tex
        /\ (textureObject \in TexIds => texBound[textureObject] = pre.texBound)
        /\ frame_dmp.pix = call.pix

\* C4 as stated: a fill whose downscaled size equals the size of the held
\* buffer performs no device memory allocation at all, for every downscale >= 1.
C4_NoDeviceAllocationAtAll ==
    (InFill /\ cam.downscale >= 1 /\ SameSize) => call.nDevAlloc = 0

C4_Witness ==
    /\ ReturnedOk /\ SameSize
    /\ cam.downscale > 1 /\ call.nDevAlloc = 1

\* C4 amended: such a fill never allocates the permanent frame buffer; it
\* allocates no device memory at all when downscale = 1, and with downscale > 1
\* its only device allocation is the one temporary full-resolution buffer.
C4_NoFrameAllocationOnSameSize ==
    (InFill /\ cam.downscale >= 1 /\ SameSize) =>
        /\ call.nFrameAlloc = 0
        /\ call.nDevAlloc <= (IF cam.downscale > 1 THEN 1 ELSE 0)
        /\ (ReturnedOk /\ cam.downscale > 1 => call.nDevAlloc = 1)

\* C5: when a fill call failed, the next fill call that succeeds returns with
\* _textureObject a live texture bound to the frame buffer the camera owns.
C5_SuccessAfterFailureRebuildsPair ==
    (ReturnedOk /\ prevStatus = "err") => TextureOnOwnedFrame

\* C6: whenever a fill call has returned, normally or by an error, the handle
\* the camera exposes is never the handle of a texture that has been destroyed
\* and, when it is a live texture, never refers to a released or superseded
\* buffer.
C6_ExposedTextureNeverDestroyedOrStale ==
    Returned =>
        /\ ~(/\ pre.texBound # -1
             /\ textureObject = pre.tex
             /\ ~IsLiveTexture(textureObject))
        /\ (IsLiveTexture(textureObject) => texBound[textureObject] # 0)

\* C7: a fill call with downscale < 1 or a non-positive original dimension
\* is refused at the boundary: it never succeeds and at no point has it changed
\* the recorded fields, the staging block, the slot entry, the frame buffer
\* or the texture.
C7_InvalidInputChangesNothing ==
    (InFill /\ ~call.valid) =>
        /\ call.result # "ok"
        /\ ~call.camChanged
        /\ ~call.stagingChanged
        /\ ~call.slotChanged
        /\ frame_dmp = pre.frame
        /\ textureObject = pre.tex
        /\ (textureObject \in TexIds => texBound[textureObject] = pre.texBound)

\* floor(a / b) for a >= 0, b >= 1, from its defining inequalities.
Floor(a, b) == CHOOSE q \in 0..a : q * b <= a /\ a < (q + 1) * b

C8_Witness ==
    /\ ReturnedOk /\ call.valid
    /\ cam.downscale = 2 /\ cam.originalWidth = 3 /\ frame_dmp.w = 1

\* C8: for downscale >= 1 and positive original dimensions, after a
\* successful fill the recorded width/height and the size of the held buffer
\* are floor(originalWidth/downscale), floor(originalHeight/downscale).
C8_DownscaledSizeIsFloor ==
    (ReturnedOk /\ call.valid) =>
        /\ cam.width = Floor(cam.originalWidth, cam.downscale)
        /\ cam.height = Floor(cam.originalHeight, cam.downscale)
        /\ frame_dmp.w = cam.width
        /\ frame_dmp.h = cam.height
        /\ frame_dmp.addr \in devLive

NumIssued(op) == Cardinality({i \in DOMAIN call.issued : call.issued[i] = op})

C9_Witness ==
    /\ ReturnedOk /\ cam.downscale > 1 /\ call.nFrameAlloc = 0
    /\ NumIssued("downscale") = 1 /\ call.nLab = 1

\* C9: every successful fill enqueues the in-place RGB->CIELAB conversion on
\* the permanent buffer exactly once, on the direct-copy and on the downscale
\* path, with or without re-allocation.
C9_ConversionExactlyOnce ==
    ReturnedOk =>
        /\ call.nLab = 1
        /\ NumIssued("rgb2lab") = 1
        /\ call.issued[Len(call.issued)] = "rgb2lab"
        /\ frame_dmp.conv = 1

\* C10: on every return of fill, normal or by an error, the temporary
\* full-resolution buffer and the temporary texture have been released.
C10_TemporariesReleasedOnReturn ==
    Returned =>
        /\ call.tmpBuf \notin devLive
        /\ ~(call.tmpTex # 0 /\ IsLiveTexture(call.tmpTex))

\* The transfers of the parameters that are in queue.
PendingTransfers == {i \in DOMAIN queue : queue[i].op = "params"}

\* The device executes, in this step, the transfer at the head of the queue.
ExecutesTransfer ==
    /\ queue # <<>> /\ Head(queue).op = "params"
    /\ queue' = Tail(queue)

\* C11: with other cameras transferring in any interleaving, a step of this
\* camera's fill or of its transfers changes no entry of the slot array but
\* its own, and once its transfers are done its entry holds the parameters of
\* the last transfer its fill calls have issued.
C11_OwnSlotOnlyAndLastParams ==
    [][/\ (\E s \in Slots \ {deviceCamId} : slotArray'[s] # slotArray[s])
            => (pc' = pc /\ queue' = queue)
       /\ (pc' = "idle" /\ lastXfer' # 0
             /\ \A i \in DOMAIN queue' : queue'[i].op # "params")
            => slotArray'[deviceCamId] = lastXfer']_vars

\* C12: while a transfer of the parameters is in queue on a stream, the
\* pinned block it reads stays allocated and holds what it held when the
\* transfer was enqueued: no later fill call and no destructor has freed or
\* overwritten it.
C12_StagingIntactWhilePending ==
    \A i \in PendingTransfers :
        /\ ~queue[i].stale
        /\ queue[i].res \in pinnedLive
        /\ pinnedData[queue[i].res] = queue[i].val

\* C13: the transfer step of fill follows the stream argument: on the null
\* stream the slot entry _deviceCamId holds the caller's parameters when the
\* step returns and nothing is enqueued; on another stream the transfer is
\* enqueued on that stream, and the entry holds the caller's parameters once
\* the device has executed it.
C13_TransferFollowsStream ==
    [][/\ (pc = "L97" /\ pc' \notin {"L97", "ret"} /\ stream = 0)
            => /\ slotArray'[deviceCamId] = call.params
               /\ queue' = queue
       /\ (pc = "L97" /\ pc' \notin {"L97", "ret"} /\ stream # 0)
            => /\ slotArray' = slotArray
               /\ Len(queue') = Len(queue) + 1
               /\ queue'[Len(queue')].op = "params"
               /\ queue'[Len(queue')].stream = stream
               /\ queue'[Len(queue')].val = call.params
       /\ ExecutesTransfer
            => slotArray'[deviceCamId] = Head(queue).val]_vars

\* C14: at no point of a fill call do the frame buffer the call found and
\* the new frame buffer that replaces it both exist (free, then allocate).
C14_OldAndNewFrameNeverCoexist ==
    InFill =>
        ~(/\ call.newFrame # 0 /\ call.newFrame \in devLive
          /\ frame_dmp # NoFrame /\ frame_dmp.addr \in devLive)

\* C16: once a fill call has returned, normally or by an error,
\* _cameraParameters_h is non-null and points to a live pinned allocation.
C16_StagingLiveAfterFirstFill ==
    (Returned \/ (pc = "idle" /\ prevStatus # "none")) =>
        /\ cameraParameters_h # 0
        /\ cameraParameters_h \in pinnedLive

\* The recorded size is the size of the held frame buffer.
RecordedSizeIsHeldSize ==
    cam.width = frame_dmp.w /\ cam.height = frame_dmp.h

C17_Witness ==
    /\ pc = "idle" /\ prevStatus = "err"
    /\ frame_dmp # NoFrame /\ ~RecordedSizeIsHeldSize
    /\ cam.memBytes > 0

\* C17: between calls, after successful and failed fill calls, _memBytes
\* is 0 when no frame buffer is held and the padded byte size of the held
\* frame buffer otherwise.
C17_MemBytesIsHeldFootprint ==
    pc = "idle" =>
        cam.memBytes = IF frame_dmp = NoFrame THEN 0
                       ELSE BytesPadded(frame_dmp.w, frame_dmp.h)

\* C18 as stated: between calls, a failed call included, _width and _height
\* are the size of the held frame buffer.
C18_RecordedSizeAlwaysHeldSize ==
    (pc = "idle" /\ frame_dmp # NoFrame) => RecordedSizeIsHeldSize

C18_Witness ==
    /\ Returned /\ call.result = "err" /\ pre.frame # NoFrame
    /\ frame_dmp # pre.frame /\ RecordedSizeIsHeldSize

\* C18 amended: between calls _width and _height are the size of the held
\* frame buffer when the last fill call succeeded; a call that returns with
\* another recorded size has failed and has left the frame buffer it found.
C18_RecordedSizeUnlessFailedBeforeReplace ==
    /\ (pc = "idle" /\ frame_dmp # NoFrame /\ prevStatus = "ok")
           => RecordedSizeIsHeldSize
    /\ (Returned /\ frame_dmp # NoFrame /\ ~RecordedSizeIsHeldSize)
           => (call.result = "err" /\ frame_dmp = pre.frame)

\* C19: cudaDestroyTextureObject(_textureObject), in fill (line 124) and in
\* the destructor (line 66), is issued only on a handle that is a live
\* texture: built before and not yet destroyed.
C19_DestroyOnlyBuiltTexture ==
    [][(\/ (pc = "L124" /\ pc' = "L125")
        \/ (pc = "D66" /\ pc' = "destroyed"))
          => IsLiveTexture(textureObject)]_vars

\* The operations of the frame-update pipeline the call has issued, in the
\* order of issue (the transfer of the parameters left out).
FrameOpsIssued == SelectSeq(call.issued, LAMBDA o : o # "params")

\* The pipeline of fillDeviceFrameFromHostFrame for a downscale factor.
Pipeline(downscale) ==
    IF downscale > 1 THEN <<"copy", "downscale", "rgb2lab">>
                     ELSE <<"copy", "rgb2lab">>

C15_Witness ==
    /\ ReturnedOk /\ stream # 0 /\ cam.downscale > 1
    /\ Len(queue) = 3
    /\ queue[1].op = "tmpcopy" /\ queue[2].op = "downscale"
    /\ queue[3].op = "rgb2lab"

\* C15: a fill call that returns normally has issued exactly the frame copy,
\* then (only when downscale > 1) the downscale, then the conversion, all on
\* the stream of the caller and on no other; and in the order of the stream
\* a downscale stands directly behind the copy of its call and a conversion
\* directly behind the downscale (downscale > 1) or the copy of its call, on
\* the same stream, so the stream executes them in that order.
C15_PipelineOnOneStreamInOrder ==
    /\ ReturnedOk =>
          /\ FrameOpsIssued = Pipeline(cam.downscale)
          /\ call.onStreams = {stream}
    /\ \A i \in DOMAIN queue :
          /\ queue[i].op # "params" => queue[i].stream # 0
          /\ (i > 1 /\ queue[i].op = "downscale") =>
                /\ queue[i - 1].op = "tmpcopy"
                /\ queue[i - 1].stream = queue[i].stream
                /\ queue[i - 1].res = queue[i].res
          /\ (i > 1 /\ queue[i].op = "rgb2lab") =>
                /\ queue[i - 1].op \in {"copy", "downscale"}
                /\ queue[i - 1].stream = queue[i].stream
    /\ (pc \in {"L158", "L159", "L163"} /\ stream # 0 /\ queue # <<>>) =>
          queue[Len(queue)].op = (IF cam.downscale > 1 THEN "downscale"
                                                       ELSE "copy")

\* C20: in the downscale path on a non-null stream, no copy into the
\* temporary buffer and no downscale reading it is in queue with the
\* temporary buffer released, and the temporary texture is not alive with
\* its buffer released.
C20_TempReleasedOnlyAfterUse ==
    stream # 0 =>
       /\ \A i \in DOMAIN queue :
             queue[i].op \in {"tmpcopy", "downscale"} => ~queue[i].stale
       /\ (call.tmpTex # 0 /\ IsLiveTexture(call.tmpTex)) =>
             texBound[call.tmpTex] # 0

====
